---- MODULE Spec2Model ----
(***************************************************************************)
(* Model of mainV2.py (slot scanner): one run of main() is                 *)
(*   fetch_all_slots -> load_previous -> diff -> send_email -> save_current*)
(* and the process is started again and again against the same snapshot    *)
(* file.                                                                   *)
(*                                                                         *)
(* Line 155 of mainV2.py lacks the closing parenthesis of seen.update(...);*)
(* the model reads it as  seen.update(await _lines_for_date(page, iso)).   *)
(*                                                                         *)
(* Text is a sequence of characters.  The characters of the model are      *)
(*   "a" "b" " " "-"   and the named ones                                  *)
(*   "NL" (U+000A), "EN" (U+2013 en dash), "EM" (U+2014 em dash),          *)
(*   "RING" (U+030A combining ring above), "ARING" (U+00E5).               *)
(***************************************************************************)
EXTENDS Integers, Sequences, FiniteSets, TLC

\* ------------------------------------------------------------------ bounds
MaxWindowDays == 1
MaxAttempts == 2
MaxCards == 2

\* ------------------------------------------------------------ characters
Code(c) ==
  CASE c = "NL"    -> 10
    [] c = " "     -> 32
    [] c = "-"     -> 45
    [] c = "a"     -> 97
    [] c = "b"     -> 98
    [] c = "ARING" -> 229
    [] c = "RING"  -> 778
    [] c = "EN"    -> 8211
    [] c = "EM"    -> 8212

IsSpace(c) == c \in {" ", "NL"}

IsLineBreak(c) == c = "NL"

Range(s) == { s[i] : i \in 1..Len(s) }

\* str.__lt__ : comparison by code point, a proper prefix is smaller
RECURSIVE StrLess(_, _)
StrLess(s, t) ==
  IF t = <<>> THEN FALSE
  ELSE IF s = <<>> THEN TRUE
  ELSE IF Code(Head(s)) < Code(Head(t)) THEN TRUE
  ELSE IF Code(Head(s)) > Code(Head(t)) THEN FALSE
  ELSE StrLess(Tail(s), Tail(t))

\* sorted(set) : the elements of S in increasing order
RECURSIVE sorted(_)
sorted(S) ==
  IF S = {} THEN <<>>
  ELSE LET m == CHOOSE x \in S : \A y \in S \ {x} : StrLess(x, y)
       IN  <<m>> \o sorted(S \ {m})

\* ---------------------------------------------------------- _canonical
\* unicodedata.normalize("NFC", s): "a" followed by the combining ring
\* composes to the precomposed letter; nothing else in the alphabet does.
RECURSIVE NFC(_)
NFC(s) ==
  IF Len(s) = 0 THEN <<>>
  ELSE IF Len(s) >= 2 /\ s[1] = "a" /\ s[2] = "RING"
       THEN <<"ARING">> \o NFC(SubSeq(s, 3, Len(s)))
       ELSE <<s[1]>> \o NFC(Tail(s))

\* s.replace(en dash, "-").replace(em dash, "-")
ReplaceDashes(s) == [i \in 1..Len(s) |-> IF s[i] \in {"EN", "EM"} THEN "-" ELSE s[i]]

\* _WS_RE.sub(" ", s): every maximal run of whitespace becomes one space
RECURSIVE CollapseWs(_)
CollapseWs(s) ==
  IF Len(s) = 0 THEN <<>>
  ELSE IF IsSpace(s[1])
       THEN IF Len(s) >= 2 /\ IsSpace(s[2])
            THEN CollapseWs(Tail(s))
            ELSE <<" ">> \o CollapseWs(Tail(s))
       ELSE <<s[1]>> \o CollapseWs(Tail(s))

\* str.strip()
RECURSIVE Strip(_)
Strip(s) ==
  IF Len(s) = 0 THEN <<>>
  ELSE IF IsSpace(s[1]) THEN Strip(Tail(s))
  ELSE IF IsSpace(s[Len(s)]) THEN Strip(SubSeq(s, 1, Len(s) - 1))
  ELSE s

_canonical(s) == Strip(CollapseWs(ReplaceDashes(NFC(s))))

\* ------------------------------------------------------- html_to_lines
\* A card of the page: whether both spans are present, whether the time
\* text matches _TIME_RE, whether the date text parses with "%B %d, %Y",
\* and the text f"{date_iso} {start}-{end} - {title}" before _canonical.
RawTexts ==
  { <<"a", " ", " ", "b">>, <<"a", "NL", "b", " ">>,
    <<"ARING", "EN", "b">>, <<"a", "RING", "EM", "b">> }

Cards ==
  { [spans |-> TRUE, time |-> TRUE, date |-> TRUE, text |-> t] : t \in RawTexts }
  \cup { [spans |-> FALSE, time |-> TRUE,  date |-> TRUE,  text |-> <<"a">>],
         [spans |-> TRUE,  time |-> FALSE, date |-> TRUE,  text |-> <<"a">>],
         [spans |-> TRUE,  time |-> TRUE,  date |-> FALSE, text |-> <<"a">>] }

\* the documents page.content() can return: at most MaxCards cards
Pages == { h \in SUBSET Cards : Cardinality(h) <= MaxCards }

\* _card_to_line returns None for these cards
CardSkipped(c) == ~c.spans \/ ~c.time

\* _normalise_date raises ValueError for these cards
CardRaises(c) == ~CardSkipped(c) /\ ~c.date

_card_to_line(c) == _canonical(c.text)

HtmlRaises(html) == \E c \in html : CardRaises(c)

html_to_lines(html) ==
  sorted({ _card_to_line(c) : c \in { d \in html : ~CardSkipped(d) } })

\* ------------------------------------------------------------- dates
\* A date is <<year, month, day>>; strftime("%Y-%m-%d") zero-pads, so the
\* ISO text of a date orders as the triple does.
IsLeap(y) == (y % 4 = 0 /\ y % 100 # 0) \/ y % 400 = 0

DaysInMonth(y, m) ==
  IF m = 2 THEN (IF IsLeap(y) THEN 29 ELSE 28)
  ELSE IF m \in {4, 6, 9, 11} THEN 30 ELSE 31

NextDay(d) ==
  IF d[3] < DaysInMonth(d[1], d[2]) THEN <<d[1], d[2], d[3] + 1>>
  ELSE IF d[2] < 12 THEN <<d[1], d[2] + 1, 1>>
  ELSE <<d[1] + 1, 1, 1>>

\* today + timedelta(days=i), i >= 0
RECURSIVE PlusDays(_, _)
PlusDays(d, i) == IF i = 0 THEN d ELSE PlusDays(NextDay(d), i - 1)

DateLess(d, e) ==
  \/ d[1] < e[1]
  \/ d[1] = e[1] /\ d[2] < e[2]
  \/ d[1] = e[1] /\ d[2] = e[2] /\ d[3] < e[3]

\* the values date.today() takes in the model
Todays == { <<2024, 2, 28>>, <<2025, 12, 31>> }

\* len(range(n)): range(n) is empty when n <= 0
PyRangeLen(n) == IF n > 0 THEN n ELSE 0

\* variant: range(DATE_WINDOW_DAYS) in place of range(DATE_WINDOW_DAYS + 1)
WindowCountExclusive(days) == PyRangeLen(days)

\* the list comprehension of fetch_all_slots
WindowCount(days) == PyRangeLen(days + 1)

IsoDates(today, days) == [k \in 1..WindowCount(days) |-> PlusDays(today, k - 1)]

\* ------------------------------------------------------ configuration
SmtpKeys == {"SMTP_HOST", "SMTP_PORT", "SMTP_USER", "SMTP_PASS", "SMTP_TO"}

\* os.getenv gives None for an unset variable, "" for an empty one
SmtpValues == {"None", "", "set"}

Truthy(v) == v = "set"

\* the mail configurations of the model: complete, one setting unset or
\* empty, or nothing set
SmtpConfigs ==
  { f \in [SmtpKeys -> SmtpValues] :
      \/ Cardinality({ k \in SmtpKeys : f[k] # "set" }) <= 1
      \/ \A k \in SmtpKeys : f[k] = "None" }

WindowDaysValues == (-2)..MaxWindowDays

AttemptsValues == 0..MaxAttempts

Complete == [k \in SmtpKeys |-> "set"]

\* the configurations of the model: every window length and attempt count
\* with the mail settings complete or without SMTP_PASS, and every mail
\* configuration with one date after today and one attempt
Configs ==
  { c \in [days : WindowDaysValues, attempts : AttemptsValues, smtp : SmtpConfigs] :
      \/ c.smtp \in {Complete, [Complete EXCEPT !["SMTP_PASS"] = "None"]}
      \/ c.days = 1 /\ c.attempts = 1 }

\* ------------------------------------------------------ snapshot file
NoFile == [exists |-> FALSE, text |-> <<>>]

\* variant: " ".join(lines)
RECURSIVE JoinWithSpaces(_)
JoinWithSpaces(lines) ==
  IF Len(lines) = 0 THEN <<>>
  ELSE IF Len(lines) = 1 THEN lines[1]
  ELSE lines[1] \o <<" ">> \o JoinWithSpaces(Tail(lines))

\* "\n".join(lines)
RECURSIVE Join(_)
Join(lines) ==
  IF Len(lines) = 0 THEN <<>>
  ELSE IF Len(lines) = 1 THEN lines[1]
  ELSE lines[1] \o <<"NL">> \o Join(Tail(lines))

\* str.splitlines()
RECURSIVE splitlines(_)
splitlines(raw) ==
  IF Len(raw) = 0 THEN <<>>
  ELSE IF \E i \in 1..Len(raw) : IsLineBreak(raw[i])
       THEN LET i == CHOOSE j \in 1..Len(raw) :
                       IsLineBreak(raw[j]) /\ \A k \in 1..(j - 1) : ~IsLineBreak(raw[k])
            IN  <<SubSeq(raw, 1, i - 1)>> \o splitlines(SubSeq(raw, i + 1, Len(raw)))
       ELSE <<raw>>

load_previous(f) ==
  IF f.exists THEN { _canonical(l) : l \in Range(splitlines(f.text)) } ELSE {}

save_current(lines) == [exists |-> TRUE, text |-> Join(lines)]

\* variant: the membership test inverted
NewLinesInPrev(cur, prv) == SelectSeq(cur, LAMBDA ln : ln \in prv)

\* new = [ln for ln in current if ln not in prev]
NewLines(cur, prv) == SelectSeq(cur, LAMBDA ln : ln \notin prv)

\* variant: any(SMTP.values())
AnySet(smtp) == \E k \in SmtpKeys : Truthy(smtp[k])

\* the guard of send_email: all(SMTP.values())
AllSet(smtp) == \A k \in SmtpKeys : Truthy(smtp[k])

\* variant: the test of new_lines dropped
DeliversWhenConfigured(new_lines, smtp) == AllSet(smtp)

\* send_email goes on to SMTP
Delivers(new_lines, smtp) == new_lines # <<>> /\ AllSet(smtp)

\* variant: the loop leaves at the last attempt only
BreaksAtLastOnly(found, att, attempts) == att = attempts - 1

\* the loop of _lines_for_date leaves at this attempt
Breaks(found, att, attempts) == found # {} \/ att = attempts - 1

\* --------------------------------------------------------------- state
VARIABLES
  DATE_WINDOW_DAYS,   \* module configuration, read from the environment
  SEARCH_ATTEMPTS,
  SMTP,
  snap,               \* the file SNAP_PATH
  pc,                 \* position of the run
  browser,            \* "none", "open", "closed"
  iso_dates,          \* fetch_all_slots: the date window
  idx,                \* position of the for loop in iso_dates
  seen,               \* fetch_all_slots: the accumulated set
  attempt,            \* _lines_for_date: loop variable
  lines,              \* _lines_for_date: result
  current,            \* main: the run result
  prev,               \* main: the loaded snapshot
  new,                \* main: the new lines
  today,              \* history: the value of date.today() in this run
  visited,            \* history: dates _lines_for_date was called with
  reads,              \* history: results parsed from the page for this date
  perDate,            \* history: what each _lines_for_date call returned
  swallowed,          \* history: positions whose date selection failed
  raisedAt,           \* history: where the run's exception was raised
  smtpLog,            \* history: SMTP operations performed in this run
  mailed,             \* history: how send_email ended
  saved,              \* history: arguments of save_current in this run
  snapAtStart,        \* history: the file when the run started
  lastDone            \* history: run result of the last completed run

config == <<DATE_WINDOW_DAYS, SEARCH_ATTEMPTS, SMTP>>
mainVars == <<current, prev, new>>
fetchVars == <<iso_dates, idx, seen, today, visited, perDate, swallowed>>
dateVars == <<attempt, lines, reads>>
mailVars == <<smtpLog, mailed>>
vars == <<config, snap, pc, browser, mainVars, fetchVars, dateVars, mailVars,
          raisedAt, saved, snapAtStart, lastDone>>

NoRun == [valid |-> FALSE, result |-> <<>>, before |-> {}]

Init ==
  /\ \E c \in Configs :
       /\ DATE_WINDOW_DAYS = c.days
       /\ SEARCH_ATTEMPTS = c.attempts
       /\ SMTP = c.smtp
  /\ snap = NoFile
  /\ pc = "start"
  /\ browser = "none"
  /\ iso_dates = <<>> /\ idx = 1 /\ seen = {}
  /\ attempt = 0 /\ lines = {}
  /\ current = <<>> /\ prev = {} /\ new = <<>>
  /\ today = <<0, 0, 0>>
  /\ visited = <<>> /\ reads = <<>> /\ perDate = <<>> /\ swallowed = {}
  /\ raisedAt = "none"
  /\ smtpLog = <<>> /\ mailed = "none"
  /\ saved = <<>>
  /\ snapAtStart = NoFile
  /\ lastDone = NoRun

\* an exception leaves the async with block
Raise(where) ==
  /\ pc' = "unwind"
  /\ raisedAt' = where

\* fetch_all_slots up to the browser launch
FetchStart ==
  /\ pc = "start"
  /\ \E t \in Todays :
       /\ today' = t
       /\ iso_dates' = IsoDates(t, DATE_WINDOW_DAYS)
  /\ browser' = "open"
  /\ pc' = "login"
  /\ UNCHANGED <<config, snap, mainVars, idx, seen, visited, perDate,
                 swallowed, dateVars, mailVars, raisedAt, saved, snapAtStart,
                 lastDone>>

\* _login
Login ==
  /\ pc = "login"
  /\ \E ok \in BOOLEAN :
       IF ok THEN /\ pc' = "loop"
                  /\ seen' = {}
                  /\ idx' = 1
                  /\ UNCHANGED raisedAt
             ELSE /\ Raise("login")
                  /\ UNCHANGED <<seen, idx>>
  /\ UNCHANGED <<config, snap, browser, mainVars, iso_dates, today, visited,
                 perDate, swallowed, dateVars, mailVars, saved, snapAtStart,
                 lastDone>>

\* _lines_for_date is entered for iso_dates[idx]: _prepare_search
PrepareSearch ==
  /\ pc = "loop"
  /\ idx <= Len(iso_dates)
  /\ visited' = Append(visited, iso_dates[idx])
  /\ \E ok \in BOOLEAN :
       IF ok THEN pc' = "select" /\ UNCHANGED raisedAt
             ELSE Raise("prepare")
  /\ UNCHANGED <<config, snap, browser, mainVars, iso_dates, idx, seen, today,
                 perDate, swallowed, dateVars, mailVars, saved, snapAtStart,
                 lastDone>>

\* the call returns r: seen.update(r) and the for loop advances
Returned(r) ==
  /\ seen' = seen \cup r
  /\ perDate' = Append(perDate, r)
  /\ idx' = idx + 1
  /\ pc' = "loop"

\* variant: the failure of the date selection is not caught
SelectDateUncaught ==
  /\ pc = "select"
  /\ \E ok \in BOOLEAN :
       IF ok THEN pc' = "click" /\ UNCHANGED raisedAt
             ELSE Raise("select")
  /\ UNCHANGED <<config, snap, browser, mainVars, fetchVars, dateVars,
                 mailVars, saved, snapAtStart, lastDone>>

\* _select_date_safe and the test of its result
SelectDateSafe ==
  /\ pc = "select"
  /\ \E ok \in BOOLEAN :
       IF ok THEN /\ pc' = "click"
                  /\ UNCHANGED <<seen, perDate, idx, swallowed>>
             ELSE /\ Returned({})
                  /\ swallowed' = swallowed \cup {idx}
  /\ UNCHANGED <<config, snap, browser, mainVars, iso_dates, today, visited,
                 dateVars, mailVars, raisedAt, saved, snapAtStart, lastDone>>

\* page.click(Search), then lines = set() before the loop
ClickSearch ==
  /\ pc = "click"
  /\ \E ok \in BOOLEAN :
       IF ok THEN /\ pc' = "poll"
                  /\ attempt' = 0
                  /\ lines' = {}
                  /\ reads' = <<>>
                  /\ UNCHANGED raisedAt
             ELSE /\ Raise("click")
                  /\ UNCHANGED dateVars
  /\ UNCHANGED <<config, snap, browser, mainVars, fetchVars, mailVars, saved,
                 snapAtStart, lastDone>>

\* one iteration of the adaptive wait loop: page.content() and the parse
ReadPage ==
  /\ pc = "poll"
  /\ attempt < SEARCH_ATTEMPTS
  /\ \E html \in Pages :
       IF HtmlRaises(html)
       THEN /\ Raise("parse")
            /\ UNCHANGED dateVars
       ELSE LET found == Range(html_to_lines(html)) IN
            /\ reads' = Append(reads, found)
            /\ UNCHANGED raisedAt
            /\ IF Breaks(found, attempt, SEARCH_ATTEMPTS)
               THEN lines' = found /\ pc' = "result" /\ UNCHANGED attempt
               ELSE attempt' = attempt + 1 /\ pc' = "poll" /\ UNCHANGED lines
  /\ UNCHANGED <<config, snap, browser, mainVars, fetchVars, mailVars, saved,
                 snapAtStart, lastDone>>

\* page.content() fails inside the loop
ReadFails ==
  /\ pc = "poll"
  /\ attempt < SEARCH_ATTEMPTS
  /\ Raise("content")
  /\ UNCHANGED <<config, snap, browser, mainVars, fetchVars, dateVars, mailVars,
                 saved, snapAtStart, lastDone>>

\* range(SEARCH_ATTEMPTS) is exhausted without a break
LoopEnds ==
  /\ pc = "poll"
  /\ attempt >= SEARCH_ATTEMPTS
  /\ pc' = "result"
  /\ UNCHANGED <<config, snap, browser, mainVars, fetchVars, dateVars, mailVars,
                 raisedAt, saved, snapAtStart, lastDone>>

\* return lines
ReturnLines ==
  /\ pc = "result"
  /\ Returned(lines)
  /\ UNCHANGED <<config, snap, browser, mainVars, iso_dates, today, visited,
                 swallowed, dateVars, mailVars, raisedAt, saved, snapAtStart,
                 lastDone>>

\* browser.close() after the last date
BrowserClose ==
  /\ pc = "loop"
  /\ idx > Len(iso_dates)
  /\ browser' = "closed"
  /\ pc' = "leave"
  /\ UNCHANGED <<config, snap, mainVars, fetchVars, dateVars, mailVars,
                 raisedAt, saved, snapAtStart, lastDone>>

\* the async with block is left normally; return sorted(seen)
FetchReturn ==
  /\ pc = "leave"
  /\ current' = sorted(seen)
  /\ pc' = "fetched"
  /\ UNCHANGED <<config, snap, browser, prev, new, fetchVars, dateVars,
                 mailVars, raisedAt, saved, snapAtStart, lastDone>>

\* variant: the exception is caught and the lines seen so far are returned
FetchUnwindPartial ==
  /\ pc = "unwind"
  /\ browser' = "closed"
  /\ current' = sorted(seen)
  /\ pc' = "fetched"
  /\ UNCHANGED <<config, snap, prev, new, fetchVars, dateVars, mailVars,
                 raisedAt, saved, snapAtStart, lastDone>>

\* variant: only browser.close() on the normal path ends the browser
FetchUnwindLeak ==
  /\ pc = "unwind"
  /\ pc' = "aborted"
  /\ UNCHANGED <<config, snap, browser, mainVars, fetchVars, dateVars,
                 mailVars, raisedAt, saved, snapAtStart, lastDone>>

\* the async with block is left by an exception: Playwright is stopped, which
\* ends the browser it launched; the exception ends main
FetchUnwind ==
  /\ pc = "unwind"
  /\ browser' = "closed"
  /\ pc' = "aborted"
  /\ UNCHANGED <<config, snap, mainVars, fetchVars, dateVars, mailVars,
                 raisedAt, saved, snapAtStart, lastDone>>

\* prev = load_previous(); new = [...]
LoadAndDiff ==
  /\ pc = "fetched"
  /\ prev' = load_previous(snap)
  /\ new' = NewLines(current, load_previous(snap))
  /\ pc' = "notify"
  /\ UNCHANGED <<config, snap, browser, current, fetchVars, dateVars, mailVars,
                 raisedAt, saved, snapAtStart, lastDone>>

\* the SMTP operations of send_email, in order
SmtpSteps == <<"connect", "starttls", "login", "send_message">>

\* send_email(new)
SendEmail ==
  /\ pc = "notify"
  /\ IF ~Delivers(new, SMTP)
     THEN /\ mailed' = "skipped"
          /\ pc' = "save"
          /\ UNCHANGED <<smtpLog, raisedAt>>
     ELSE \E n \in 1..Len(SmtpSteps), ok \in BOOLEAN :
            /\ ok => n = Len(SmtpSteps)
            /\ smtpLog' = SubSeq(SmtpSteps, 1, n)
            /\ IF ok THEN /\ mailed' = "sent"
                          /\ pc' = "save"
                          /\ UNCHANGED raisedAt
                     ELSE /\ mailed' = "failed"
                          /\ pc' = "aborted"
                          /\ raisedAt' = SmtpSteps[n]
  /\ UNCHANGED <<config, snap, browser, mainVars, fetchVars, dateVars, saved,
                 snapAtStart, lastDone>>

\* variant: the snapshot is written only when something is new
SaveCurrentIfNew ==
  /\ pc = "save"
  /\ IF new # <<>>
     THEN /\ snap' = save_current(current)
          /\ saved' = Append(saved, current)
          /\ lastDone' = [valid |-> TRUE, result |-> current, before |-> prev]
     ELSE UNCHANGED <<snap, saved, lastDone>>
  /\ pc' = "done"
  /\ UNCHANGED <<config, browser, mainVars, fetchVars, dateVars, mailVars,
                 raisedAt, snapAtStart>>

\* save_current(current)
SaveCurrent ==
  /\ pc = "save"
  /\ snap' = save_current(current)
  /\ saved' = Append(saved, current)
  /\ lastDone' = [valid |-> TRUE, result |-> current, before |-> prev]
  /\ pc' = "done"
  /\ UNCHANGED <<config, browser, mainVars, fetchVars, dateVars, mailVars,
                 raisedAt, snapAtStart>>

\* the process ends and is started again with the same environment
NewRun ==
  /\ pc \in {"done", "aborted"}
  /\ today' = <<0, 0, 0>>
  /\ pc' = "start"
  /\ browser' = "none"
  /\ iso_dates' = <<>> /\ idx' = 1 /\ seen' = {}
  /\ attempt' = 0 /\ lines' = {}
  /\ current' = <<>> /\ prev' = {} /\ new' = <<>>
  /\ visited' = <<>> /\ reads' = <<>> /\ perDate' = <<>> /\ swallowed' = {}
  /\ raisedAt' = "none"
  /\ smtpLog' = <<>> /\ mailed' = "none"
  /\ saved' = <<>>
  /\ snapAtStart' = snap
  /\ UNCHANGED <<config, snap, lastDone>>

Next ==
  \/ FetchStart \/ Login \/ PrepareSearch \/ SelectDateSafe \/ ClickSearch
  \/ ReadPage \/ ReadFails \/ LoopEnds \/ ReturnLines \/ BrowserClose
  \/ FetchReturn \/ FetchUnwind \/ LoadAndDiff \/ SendEmail \/ SaveCurrent
  \/ NewRun

Spec == Init /\ [][Next]_vars

\* ---------------------------------------------------------- properties
\* fetch_all_slots has returned in this run
FetchReturned ==
  pc \in {"fetched", "notify", "save", "done"} \/ mailed = "failed"

\* main has computed new in this run
Diffed == pc \in {"notify", "save", "done"} \/ mailed = "failed"

RunEnded == pc \in {"done", "aborted"}

Position(seq, x) == CHOOSE i \in 1..Len(seq) : seq[i] = x

Union(seq) == UNION Range(seq)

\* C1: once main has computed New Lines, they are exactly the lines of the
\* current result that are not in the loaded snapshot: all of those, none
\* from the snapshot, none from elsewhere, none twice, in the order of the
\* current result.
C1_NewLinesAreTheDifference ==
  Diffed =>
    /\ Range(new) = Range(current) \ prev
    /\ \A i, j \in 1..Len(new) : i < j =>
         /\ new[i] # new[j]
         /\ Position(current, new[i]) < Position(current, new[j])

C1_Witness ==
  /\ Diffed
  /\ Len(current) = 2
  /\ Len(new) = 1
  /\ prev \cap Range(current) # {}

\* C2 as stated: whenever fetch_all_slots returned, the run ends with
\* save_current called with the result, whatever send_email did.
C2_SavedWhateverTheNotification ==
  (RunEnded /\ FetchReturned) => saved = <<current>>

\* C2 amended: whenever fetch_all_slots returned and send_email returned
\* without raising, the run ends with save_current called once, with the
\* result, changed or not; when send_email raised, the run ends with
\* save_current not called and the file untouched.
C2_SavedUnlessDeliveryFailed ==
  (RunEnded /\ FetchReturned) =>
    IF mailed = "failed"
    THEN saved = <<>> /\ snap = snapAtStart
    ELSE saved = <<current>> /\ snap = save_current(current)

C2_Witness ==
  /\ pc = "done"
  /\ current # <<>>
  /\ new = <<>>
  /\ saved = <<current>>

\* C3: when the current result is the loaded snapshot, New Lines is empty
\* and the run performs no SMTP operation, whatever the mail configuration.
C3_UnchangedSendsNothing ==
  (Diffed /\ Range(current) = prev) => new = <<>> /\ smtpLog = <<>> /\ mailed # "failed"

C3_Witness ==
  /\ pc = "save"
  /\ current # <<>>
  /\ Range(current) = prev
  /\ \A k \in SmtpKeys : SMTP[k] = "set"
  /\ mailed = "skipped"
  /\ smtpLog = <<>>

\* C4: with one of the five mail settings missing, send_email performs no
\* SMTP operation and does not raise, whatever new_lines is, and the run
\* goes on to save_current.
C4_MissingSettingSkipsMail ==
  (\E k \in SmtpKeys : SMTP[k] \in {"None", ""}) =>
    /\ smtpLog = <<>>
    /\ mailed \in {"none", "skipped"}
    /\ mailed = "skipped" => pc \in {"save", "done"}
    /\ pc = "done" => saved = <<current>>

C4_Witness ==
  /\ Cardinality({ k \in SmtpKeys : ~Truthy(SMTP[k]) }) = 1
  /\ new # <<>>
  /\ pc = "done"
  /\ mailed = "skipped"
  /\ saved = <<current>>

\* C5: the snapshot is replaced: what load_previous returns in a run is
\* exactly the set of lines of the result of the last run that completed,
\* and right after a run completes the file loads back to its result.
C5_SnapshotReplaced ==
  /\ (Diffed /\ pc # "done" /\ lastDone.valid) => prev = Range(lastDone.result)
  /\ pc = "done" => load_previous(snap) = Range(current)

C5_Witness ==
  /\ pc = "notify"
  /\ lastDone.valid
  /\ lastDone.before \ Range(lastDone.result) # {}
  /\ prev = Range(lastDone.result)

\* C6 as stated: the date window has DATE_WINDOW_DAYS dates.
C6_WindowHasConfiguredLength ==
  pc # "start" => Len(iso_dates) = DATE_WINDOW_DAYS

\* C6 amended: the date window has DATE_WINDOW_DAYS + 1 dates (none when
\* that is not positive): today and the DATE_WINDOW_DAYS days after it,
\* consecutive and increasing; _lines_for_date is called on them in that
\* order, once each, and on all of them when fetch_all_slots returns.
C6_WindowIsTodayPlusDays ==
  pc # "start" =>
    /\ Len(iso_dates) = (IF DATE_WINDOW_DAYS + 1 > 0 THEN DATE_WINDOW_DAYS + 1 ELSE 0)
    /\ Len(iso_dates) > 0 => iso_dates[1] = today
    /\ \A k \in 1..(Len(iso_dates) - 1) :
         /\ iso_dates[k + 1] = NextDay(iso_dates[k])
         /\ DateLess(iso_dates[k], iso_dates[k + 1])
    /\ Len(visited) <= Len(iso_dates)
    /\ visited = SubSeq(iso_dates, 1, Len(visited))
    /\ FetchReturned => visited = iso_dates

C6_Witness ==
  /\ pc = "fetched"
  /\ Len(iso_dates) >= 2
  /\ iso_dates[2][1] # iso_dates[1][1]
  /\ visited = iso_dates

C7_AdaptiveWaitState ==
  /\ Len(reads) <= SEARCH_ATTEMPTS
  /\ \A i \in 1..(Len(reads) - 1) : reads[i] = {}
  /\ pc = "poll" => Len(reads) = attempt /\ \A i \in 1..Len(reads) : reads[i] = {}
  /\ pc = "result" =>
       /\ lines = (IF reads = <<>> THEN {} ELSE reads[Len(reads)])
       /\ lines = {} => Len(reads) = SEARCH_ATTEMPTS

\* every step taken inside the loop leaves it or counts one attempt up
C7_AdaptiveWaitStep ==
  pc = "poll" => pc' # "poll" \/ (attempt' = attempt + 1 /\ Len(reads') = Len(reads) + 1)

\* C7: the adaptive wait reads the page at most SEARCH_ATTEMPTS times, never
\* again after a non-empty result, and returns the first non-empty result,
\* or the empty result once every attempt was empty; each pass through the
\* loop uses up one attempt, so the loop terminates.
C7_AdaptiveWaitIsBounded ==
  [](C7_AdaptiveWaitState) /\ [][C7_AdaptiveWaitStep]_vars

C7_Witness ==
  /\ pc = "result"
  /\ SEARCH_ATTEMPTS = 2
  /\ Len(reads) = 1
  /\ lines # {}

\* C8 as stated: no failure of preparing the form, selecting the date or
\* triggering the search ends the run.
C8_PerDateFailuresSwallowed ==
  raisedAt \notin {"prepare", "select", "click"}

\* C8 amended: a failure of the date selection is swallowed: the call
\* returns the empty set, the accumulated lines are unchanged, the loop goes
\* on to the next date, and when fetch_all_slots returns every date was
\* searched and the result is the union of what the calls returned.
C8_SelectFailureState ==
  /\ raisedAt # "select"
  /\ \A i \in swallowed : i <= Len(perDate) /\ perDate[i] = {}
  /\ pc \in {"loop", "select", "click", "poll", "result"} =>
       seen = Union(perDate) /\ idx = Len(perDate) + 1
  /\ FetchReturned =>
       /\ Len(perDate) = Len(iso_dates)
       /\ visited = iso_dates
       /\ Range(current) = Union(perDate)

C8_SelectFailureStep ==
  (pc = "select" /\ pc' # "click") =>
    /\ pc' = "loop"
    /\ idx' = idx + 1
    /\ seen' = seen
    /\ perDate' = Append(perDate, {})

C8_SelectFailureSwallowed ==
  [](C8_SelectFailureState) /\ [][C8_SelectFailureStep]_vars

C8_Witness ==
  /\ pc = "fetched"
  /\ Len(iso_dates) = 2
  /\ perDate[1] # {}
  /\ swallowed = {2}
  /\ Range(current) = perDate[1]

\* C9: a run that ends before fetch_all_slots returned leaves the snapshot
\* file as it was and performs no SMTP operation; save_current is only
\* called with the union over the whole date window.
C9_NoPartialPersistence ==
  /\ ~FetchReturned => snap = snapAtStart /\ saved = <<>> /\ smtpLog = <<>>
  /\ saved # <<>> =>
       /\ Len(perDate) = Len(iso_dates)
       /\ saved = <<sorted(Union(perDate))>>
       /\ snap = save_current(sorted(Union(perDate)))

C9_Witness ==
  /\ pc = "aborted"
  /\ raisedAt \in {"prepare", "click", "content", "parse"}
  /\ seen \ load_previous(snapAtStart) # {}
  /\ snapAtStart.exists
  /\ snap = snapAtStart

====
